---- MODULE Spec2Model ----
(***************************************************************************)
(* Model of cyclic-dependency-fixer: the Tarjan cycle detector             *)
(* (TarjanCycleDetector / TarjanAlgorithm), the fix orchestrator           *)
(* (FixCyclesUseCase) with the built-in strategies, the detection run with *)
(* its analysis cache (DetectCyclesUseCase, AnalysisCache) and the         *)
(* boundary rules (DependencyPolicyEnforcer).                              *)
(***************************************************************************)
EXTENDS Integers, Sequences, FiniteSets, TLC

VARIABLES
    modules,      \* the ReadonlyMap<ModulePath, Module> handed to detectCycles
    pc,           \* position of the detection run
    cycles,       \* result of the latest detectCycles call
    rebuilt,      \* how the map was rebuilt since the first call, if it was
    prevCycles,   \* result of the detectCycles call before the map was rebuilt
    strategies,   \* FixCyclesUseCase.strategies: the types, in registration order
    options,      \* the FixOptions of the fix run
    fpc,          \* position of FixCyclesUseCase.execute
    cycleIdx,     \* the cycle of the list that fixCycle was last called on
    candidates,   \* that cycle's applicable strategies as gathered, before the sort
    applicable,   \* applicableStrategies after the sort
    tryIdx,       \* the entry of applicable that the loop of fixCycle is at
    fixCalls,     \* the strategy.fix calls made for that cycle, with their outcomes
    results,      \* the results array of execute
    fsLog,        \* the calls the built-in strategies made on the IFileSystem
    disk,         \* the content of each source file of the project
    cacheFile,    \* cycfix-cache.json in the cache directory
    config,       \* the AnalysisConfig of DetectCyclesUseCase.execute
    rpc,          \* position of DetectCyclesUseCase.execute
    files,        \* execute: the files findFiles returned
    cacheState,   \* execute: what cache.load returned, or undefined
    tasks,        \* parseModules: where the async callback of each file is
    hashes,       \* parseModules: the hashes map
    cacheHits,    \* parseModules: the cacheHits counter
    warnings,     \* execute: the warnings array
    parserCalls,  \* the files parser.parse was called on, in call order
    analysisResult, \* the AnalysisResult execute returned
    cacheSaved,   \* how the cache.save call of execute ended
    rules,        \* DependencyPolicyEnforcer: config.rules
    ppc,          \* position of DependencyPolicyEnforcer.evaluate
    evaluated,    \* the cycles of the AnalysisResult handed to evaluate
    violations    \* what evaluate returned

detectVars == <<modules, pc, cycles, rebuilt, prevCycles>>

fixVars == <<strategies, options, fpc, cycleIdx, candidates, applicable, tryIdx,
             fixCalls, results, fsLog>>

runVars == <<disk, cacheFile, config, rpc, files, cacheState, tasks, hashes,
             cacheHits, warnings, parserCalls, analysisResult, cacheSaved>>

policyVars == <<rules, ppc, evaluated, violations>>

vars == <<modules, pc, cycles, rebuilt, prevCycles, strategies, options, fpc,
          cycleIdx, candidates, applicable, tryIdx, fixCalls, results, fsLog,
          disk, cacheFile, config, rpc, files, cacheState, tasks, hashes,
          cacheHits, warnings, parserCalls, analysisResult, cacheSaved,
          rules, ppc, evaluated, violations>>

(***************************************************************************)
(* Bounds and universes                                                    *)
(***************************************************************************)

\* Total number of import statements in a generated graph.
MaxEdges == 4

\* Module paths of the generated graphs: three for the graphs with any import
\* lists, a fourth for the graphs with at most one import per module.
Paths == {"/a.ts", "/b.ts", "/c.ts"}

WidePaths == Paths \cup {"/d.ts"}

\* Total number of import statements in a graph handed to a fix run.
MaxFixEdges == 2

\* Number of registered fix strategies.
MaxStrategies == 3

\* config.maxDepth as the library and the CLI set it.
DefaultMaxDepth == 50

\* Values of config.maxDepth: no edge at all, and the default.
Depths == {0, DefaultMaxDepth}

\* resolvedPath of an import that could not be resolved.
NullPath == "<null>"

Min(a, b) == IF a < b THEN a ELSE b

Range(s) == {s[i] : i \in 1..Len(s)}

(***************************************************************************)
(* Map<K, V> and Set<K> of the runtime                                     *)
(***************************************************************************)

MapHas(map, k) == k \in DOMAIN map

MapSet(map, k, v) == [x \in (DOMAIN map) \cup {k} |-> IF x = k THEN v ELSE map[x]]

EmptyMap == [x \in {} |-> 0]

(***************************************************************************)
(* The module map: keys in insertion order, and each module's imports      *)
(***************************************************************************)

\* An ImportInfo; as generated, a static import of one identifier.
ImportInfo(target, lineNo) ==
    [resolvedPath |-> target, line |-> lineNo, type |-> "static", identifiers |-> <<"x">>]

\* Module.imports read from a list of resolved targets, one import per line.
ImportsOf(targets) == [i \in 1..Len(targets) |-> ImportInfo(targets[i], i)]

ModulesHas(m, p) == p \in Range(m.keys)

\* this.modules.get(p).imports (only read when the map has p)
ModuleImports(m, p) == m.imports[p]

(***************************************************************************)
(* TarjanAlgorithm                                                         *)
(***************************************************************************)

\* Fields of a new TarjanAlgorithm.
TarjanInit ==
    [index      |-> 0,
     stack      |-> <<>>,
     indexMap   |-> EmptyMap,
     lowLinkMap |-> EmptyMap,
     onStack    |-> {},
     sccs       |-> <<>>]

RECURSIVE popScc(_, _, _)

\* popScc with the loop left after its first turn: only the top of the stack
\* is taken.
popScc_OnlyTop(st, modulePath, scc) ==
    LET w == st.stack[Len(st.stack)]
    IN  [st EXCEPT !.stack = SubSeq(st.stack, 1, Len(st.stack) - 1),
                   !.onStack = st.onStack \ {w},
                   !.sccs = Append(st.sccs, Append(scc, w))]

\* do { w = stack.pop(); onStack.delete(w); scc.push(w) } while (w !== modulePath)
popScc(st, modulePath, scc) ==
    LET w   == st.stack[Len(st.stack)]
        st1 == [st EXCEPT !.stack = SubSeq(st.stack, 1, Len(st.stack) - 1),
                          !.onStack = st.onStack \ {w}]
        scc1 == Append(scc, w)
    IN  IF w # modulePath
        THEN popScc(st1, modulePath, scc1)
        ELSE [st1 EXCEPT !.sccs = Append(st1.sccs, scc1)]

RECURSIVE strongConnect(_, _, _)
RECURSIVE visitSuccessors(_, _, _, _)

\* visitSuccessors with "break" for "continue" at an import that is no key.
visitSuccessors_BreakOnDangling(m, st, modulePath, i) ==
    IF i > Len(ModuleImports(m, modulePath))
    THEN st
    ELSE
        LET successor == ModuleImports(m, modulePath)[i].resolvedPath
        IN  IF ~ModulesHas(m, successor)
            THEN st
            ELSE IF ~MapHas(st.indexMap, successor)
            THEN LET r == strongConnect(m, st, successor)
                 IN  visitSuccessors(m,
                        [r EXCEPT !.lowLinkMap =
                            MapSet(r.lowLinkMap, modulePath,
                                   Min(r.lowLinkMap[modulePath], r.lowLinkMap[successor]))],
                        modulePath, i + 1)
            ELSE IF successor \in st.onStack
            THEN visitSuccessors(m,
                    [st EXCEPT !.lowLinkMap =
                        MapSet(st.lowLinkMap, modulePath,
                               Min(st.lowLinkMap[modulePath], st.indexMap[successor]))],
                    modulePath, i + 1)
            ELSE visitSuccessors(m, st, modulePath, i + 1)

\* The loop "for (const importInfo of module.imports)" of strongConnect, from
\* the i-th import on.
visitSuccessors(m, st, modulePath, i) ==
    IF i > Len(ModuleImports(m, modulePath))
    THEN st
    ELSE
        LET successor == ModuleImports(m, modulePath)[i].resolvedPath
            st1 ==
                IF ~ModulesHas(m, successor)
                THEN st
                ELSE IF ~MapHas(st.indexMap, successor)
                THEN LET r == strongConnect(m, st, successor)
                     IN  [r EXCEPT !.lowLinkMap =
                            MapSet(r.lowLinkMap, modulePath,
                                   Min(r.lowLinkMap[modulePath], r.lowLinkMap[successor]))]
                ELSE IF successor \in st.onStack
                THEN [st EXCEPT !.lowLinkMap =
                            MapSet(st.lowLinkMap, modulePath,
                                   Min(st.lowLinkMap[modulePath], st.indexMap[successor]))]
                ELSE st
        IN  visitSuccessors(m, st1, modulePath, i + 1)

strongConnect(m, st, modulePath) ==
    LET st1 == [st EXCEPT !.indexMap   = MapSet(st.indexMap, modulePath, st.index),
                          !.lowLinkMap = MapSet(st.lowLinkMap, modulePath, st.index),
                          !.index      = st.index + 1,
                          !.stack      = Append(st.stack, modulePath),
                          !.onStack    = st.onStack \cup {modulePath}]
    IN  IF ~ModulesHas(m, modulePath)
        THEN st1
        ELSE
            LET st2 == visitSuccessors(m, st1, modulePath, 1)
            IN  IF st2.lowLinkMap[modulePath] = st2.indexMap[modulePath]
                THEN popScc(st2, modulePath, <<>>)
                ELSE st2

RECURSIVE runTarjan(_, _, _)
\* The loop "for (const modulePath of this.modules.keys())" of findCycles.
runTarjan(m, st, i) ==
    IF i > Len(m.keys)
    THEN st
    ELSE IF ~MapHas(st.indexMap, m.keys[i])
         THEN runTarjan(m, strongConnect(m, st, m.keys[i]), i + 1)
         ELSE runTarjan(m, st, i + 1)

\* hasSelfLoop testing for any import of a module of the map.
hasSelfLoop_AnyImport(m, modulePath) ==
    IF ~ModulesHas(m, modulePath)
    THEN FALSE
    ELSE \E i \in 1..Len(ModuleImports(m, modulePath)) :
            ModulesHas(m, ModuleImports(m, modulePath)[i].resolvedPath)

\* hasSelfLoop finding none: only components of more than one module are kept.
hasSelfLoop_Never(m, modulePath) == FALSE

hasSelfLoop(m, modulePath) ==
    IF ~ModulesHas(m, modulePath)
    THEN FALSE
    ELSE \E i \in 1..Len(ModuleImports(m, modulePath)) :
            ModuleImports(m, modulePath)[i].resolvedPath = modulePath

(***************************************************************************)
(* findCyclePath                                                           *)
(***************************************************************************)

\* adjacency without the filter on sccSet.
adjacency_Unfiltered(m, sccSet, node) ==
    IF ~ModulesHas(m, node)
    THEN <<>>
    ELSE [i \in 1..Len(ModuleImports(m, node)) |-> ModuleImports(m, node)[i].resolvedPath]

\* module.imports.map(imp => imp.resolvedPath).filter(path => sccSet.has(path));
\* "adjacency.get(node) || []" for a node with no entry.
adjacency(m, sccSet, node) ==
    IF ~ModulesHas(m, node)
    THEN <<>>
    ELSE LET resolved == [i \in 1..Len(ModuleImports(m, node)) |->
                            ModuleImports(m, node)[i].resolvedPath]
             InScc(p) == p \in sccSet
         IN  SelectSeq(resolved, InScc)

RECURSIVE dfs(_, _, _, _)
RECURSIVE dfsNeighbors(_, _, _, _, _)

\* The loop "for (const neighbor of neighbors)" of dfs, from the i-th on.
dfsNeighbors(m, sccSet, d, node, i) ==
    LET neighbors == adjacency(m, sccSet, node)
    IN  IF i > Len(neighbors)
        THEN [d EXCEPT !.recStack = d.recStack \ {node},
                       !.path = SubSeq(d.path, 1, Len(d.path) - 1),
                       !.found = FALSE]
        ELSE
            LET neighbor == neighbors[i]
            IN  IF neighbor \notin d.visited
                THEN LET r == dfs(m, sccSet, d, neighbor)
                     IN  IF r.found
                         THEN r
                         ELSE dfsNeighbors(m, sccSet, r, node, i + 1)
                ELSE IF neighbor \in d.recStack
                THEN [d EXCEPT !.path = Append(d.path, neighbor), !.found = TRUE]
                ELSE dfsNeighbors(m, sccSet, d, node, i + 1)

dfs(m, sccSet, d, node) ==
    dfsNeighbors(m, sccSet,
                 [d EXCEPT !.visited = d.visited \cup {node},
                           !.recStack = d.recStack \cup {node},
                           !.path = Append(d.path, node)],
                 node, 1)

findCyclePath(m, scc) ==
    IF Len(scc) = 1
    THEN <<scc[1], scc[1]>>
    ELSE
        LET r == dfs(m, Range(scc),
                     [visited |-> {}, recStack |-> {}, path |-> <<>>, found |-> FALSE],
                     scc[1])
        IN  IF Len(r.path) > 1 THEN r.path ELSE <<scc[1], scc[1]>>

(***************************************************************************)
(* buildCycleEdges                                                         *)
(***************************************************************************)

\* findImport taking the last match.
findImport_Last(imports, to) ==
    LET hits == {i \in 1..Len(imports) : imports[i].resolvedPath = to}
    IN  IF hits = {} THEN 0 ELSE CHOOSE i \in hits : \A j \in hits : i >= j

\* module.imports.find(imp => imp.resolvedPath === to): the index of the first
\* match, 0 when there is none.
findImport(imports, to) ==
    LET hits == {i \in 1..Len(imports) : imports[i].resolvedPath = to}
    IN  IF hits = {} THEN 0 ELSE CHOOSE i \in hits : \A j \in hits : i <= j

RECURSIVE buildCycleEdgesFrom(_, _, _, _)
buildCycleEdgesFrom(m, cyclePath, i, edges) ==
    IF i > Len(cyclePath) - 1
    THEN edges
    ELSE
        LET from == cyclePath[i]
            to   == cyclePath[i + 1]
            k    == IF ModulesHas(m, from) THEN findImport(ModuleImports(m, from), to) ELSE 0
        IN  buildCycleEdgesFrom(m, cyclePath, i + 1,
                IF k # 0
                THEN Append(edges, [from |-> from, to |-> to,
                                    importInfo |-> ModuleImports(m, from)[k]])
                ELSE edges)

buildCycleEdges(m, cyclePath) == buildCycleEdgesFrom(m, cyclePath, 1, <<>>)

(***************************************************************************)
(* generateCycleId                                                         *)
(***************************************************************************)

\* Array.prototype.sort() without a comparator orders strings by UTF-16 code
\* units; for the module paths of the model this is their alphabetical rank.
CodeUnitRank ==
    [p \in {"/a.ts", "/b.ts", "/c.ts", "/d.ts"} |->
        CASE p = "/a.ts" -> 1 [] p = "/b.ts" -> 2 [] p = "/c.ts" -> 3 [] p = "/d.ts" -> 4]

RECURSIVE insertSorted(_, _)
insertSorted(sorted, p) ==
    IF sorted = <<>>
    THEN <<p>>
    ELSE IF CodeUnitRank[p] < CodeUnitRank[Head(sorted)]
         THEN <<p>> \o sorted
         ELSE <<Head(sorted)>> \o insertSorted(Tail(sorted), p)

RECURSIVE sortPaths(_)
\* [...cyclePath].sort()
sortPaths(s) ==
    IF s = <<>> THEN <<>> ELSE insertSorted(sortPaths(SubSeq(s, 1, Len(s) - 1)), s[Len(s)])

RECURSIVE join(_, _)
\* Array.prototype.join(sep)
join(s, sep) ==
    IF s = <<>> THEN ""
    ELSE IF Len(s) = 1 THEN s[1]
    ELSE s[1] \o sep \o join(Tail(s), sep)

\* crypto.createHash('md5').update(text).digest('hex').slice(0, 8), tabulated
\* for the joined strings a cycle path over the model's module paths can give.
md5Hex8(text) ==
    CASE text = "/a.ts::/a.ts" -> "2191407a"
      [] text = "/b.ts::/b.ts" -> "06be4f22"
      [] text = "/c.ts::/c.ts" -> "e98e19e9"
      [] text = "/d.ts::/d.ts" -> "626d44be"
      [] text = "/a.ts::/a.ts::/b.ts" -> "e5180e3c"
      [] text = "/a.ts::/b.ts::/b.ts" -> "f205028f"
      [] text = "/a.ts::/a.ts::/c.ts" -> "2a808a70"
      [] text = "/a.ts::/c.ts::/c.ts" -> "4a9fd2b7"
      [] text = "/a.ts::/a.ts::/d.ts" -> "c2292e45"
      [] text = "/a.ts::/d.ts::/d.ts" -> "f178e55a"
      [] text = "/b.ts::/b.ts::/c.ts" -> "57b49391"
      [] text = "/b.ts::/c.ts::/c.ts" -> "dc351856"
      [] text = "/b.ts::/b.ts::/d.ts" -> "80b44eb7"
      [] text = "/b.ts::/d.ts::/d.ts" -> "8e0538ea"
      [] text = "/c.ts::/c.ts::/d.ts" -> "5f1e0975"
      [] text = "/c.ts::/d.ts::/d.ts" -> "3a5d1452"
      [] text = "/a.ts::/a.ts::/b.ts::/c.ts" -> "f0fdc192"
      [] text = "/a.ts::/b.ts::/b.ts::/c.ts" -> "2a718734"
      [] text = "/a.ts::/b.ts::/c.ts::/c.ts" -> "6aee2f76"
      [] text = "/a.ts::/a.ts::/b.ts::/d.ts" -> "957cf081"
      [] text = "/a.ts::/b.ts::/b.ts::/d.ts" -> "93192b6e"
      [] text = "/a.ts::/b.ts::/d.ts::/d.ts" -> "6a5a8f3b"
      [] text = "/a.ts::/a.ts::/c.ts::/d.ts" -> "2ecfb48b"
      [] text = "/a.ts::/c.ts::/c.ts::/d.ts" -> "9fdf9412"
      [] text = "/a.ts::/c.ts::/d.ts::/d.ts" -> "e8600bec"
      [] text = "/b.ts::/b.ts::/c.ts::/d.ts" -> "6afef3fc"
      [] text = "/b.ts::/c.ts::/c.ts::/d.ts" -> "2860c97a"
      [] text = "/b.ts::/c.ts::/d.ts::/d.ts" -> "e009dc96"
      [] text = "/a.ts::/a.ts::/b.ts::/c.ts::/d.ts" -> "2f1d1626"
      [] text = "/a.ts::/b.ts::/b.ts::/c.ts::/d.ts" -> "bf9d5d4a"
      [] text = "/a.ts::/b.ts::/c.ts::/c.ts::/d.ts" -> "5cb7433a"
      [] text = "/a.ts::/b.ts::/c.ts::/d.ts::/d.ts" -> "05445636"

generateCycleId(cyclePath) == md5Hex8(join(sortPaths(cyclePath), "::"))

(***************************************************************************)
(* createCycle, findCycles, detectCycles                                   *)
(***************************************************************************)

createCycle(m, scc) ==
    LET cyclePath == findCyclePath(m, scc)
    IN  [paths |-> cyclePath,
         edges |-> buildCycleEdges(m, cyclePath),
         id    |-> generateCycleId(cyclePath)]

findCycles(m) ==
    LET sccs == runTarjan(m, TarjanInit, 1).sccs
        Kept(scc) == Len(scc) > 1 \/ hasSelfLoop(m, scc[1])
        kept == SelectSeq(sccs, Kept)
    IN  [i \in 1..Len(kept) |-> createCycle(m, kept[i])]

\* detectCycles leaving out the cycles whose path has more than maxDepth
\* edges.
detectCycles_DepthLimited(m, maxDepth) ==
    LET Within(cycle) == Len(cycle.paths) - 1 <= maxDepth
    IN  SelectSeq(findCycles(m), Within)

\* TarjanCycleDetector.detectCycles: maxDepth is handed to the constructor,
\* which drops it.
detectCycles(m, maxDepth) == findCycles(m)

(***************************************************************************)
(* Module maps the detector is run on                                      *)
(***************************************************************************)

RECURSIVE SetToSeq(_)
SetToSeq(S) ==
    IF S = {} THEN <<>> ELSE LET x == CHOOSE y \in S : TRUE IN <<x>> \o SetToSeq(S \ {x})

TargetLists(n, targets) == UNION {[1..k -> targets] : k \in 0..n}

\* The map with the modules of S, in sorted key order; lists[p] are the
\* resolved targets of the imports of p.
MapOf(S, lists) ==
    [keys |-> sortPaths(SetToSeq(S)), imports |-> [p \in S |-> ImportsOf(lists[p])]]

KeyOrders(S) == {s \in [1..Cardinality(S) -> S] : Range(s) = S}

HasDangling(m) ==
    \E p \in Range(m.keys) : \E i \in 1..Len(m.imports[p]) :
        ~ModulesHas(m, m.imports[p][i].resolvedPath)

\* The same map with every import whose resolvedPath is no key removed.
WithoutDangling(m) ==
    LET Resolved(imp) == ModulesHas(m, imp.resolvedPath)
    IN  [m EXCEPT !.imports = [p \in DOMAIN m.imports |-> SelectSeq(m.imports[p], Resolved)]]

\* The fix side before execute is called.
FixIdle ==
    /\ strategies = <<>>
    /\ options = [strategies |-> {}, backup |-> TRUE, dryRun |-> FALSE]
    /\ fpc = "idle"
    /\ cycleIdx = 0
    /\ candidates = <<>>
    /\ applicable = <<>>
    /\ tryIdx = 0
    /\ fixCalls = <<>>
    /\ results = <<>>
    /\ fsLog = <<>>

\* DetectCyclesUseCase before execute is called on a project.
RunIdle ==
    /\ disk = EmptyMap
    /\ cacheFile = [kind |-> "missing", hasModules |-> FALSE, modules |-> EmptyMap]
    /\ config = [enableCache |-> FALSE, maxFiles |-> 0, exclude |-> {},
                 maxDepth |-> DefaultMaxDepth]
    /\ rpc = "idle"
    /\ files = <<>>
    /\ cacheState = [kind |-> "undefined", hasModules |-> FALSE, modules |-> EmptyMap]
    /\ tasks = EmptyMap
    /\ hashes = EmptyMap
    /\ cacheHits = 0
    /\ warnings = <<>>
    /\ parserCalls = <<>>
    /\ analysisResult = <<>>
    /\ cacheSaved = "none"

\* DependencyPolicyEnforcer with no rules, before evaluate is called.
PolicyIdle ==
    /\ rules = <<>>
    /\ ppc = "idle"
    /\ evaluated = <<>>
    /\ violations = <<>>

(***************************************************************************)
(* Detection runs                                                          *)
(***************************************************************************)

\* The import lists a module of S may get with budget imports left: any list
\* over targets; a path outside S is no module and gets none.
ListsFor(p, S, budget, targets) ==
    IF p \in S THEN TargetLists(budget, targets) ELSE {<<>>}

\* The targets an import of a map over S may have: when resolved, a module of
\* the map; otherwise any of Paths (a key or not) or no resolved path at all.
TargetsOf(S, resolved) == IF resolved THEN S ELSE Paths \cup {NullPath}

\* m is a map over a subset S of Paths with at most budget imports in all,
\* each with a target in TargetsOf(S, resolved).
IsMapWithin(m, budget, resolved) ==
    \E S \in SUBSET Paths :
    \E la \in ListsFor("/a.ts", S, budget, TargetsOf(S, resolved)) :
    \E lb \in ListsFor("/b.ts", S, budget - Len(la), TargetsOf(S, resolved)) :
    \E lc \in ListsFor("/c.ts", S, budget - Len(la) - Len(lb), TargetsOf(S, resolved)) :
        m = MapOf(S, [p \in Paths |-> CASE p = "/a.ts" -> la [] p = "/b.ts" -> lb [] p = "/c.ts" -> lc])

\* Maps of all of WidePaths in which every module has at most one import.
WideMaps ==
    {MapOf(WidePaths, tl) : tl \in [WidePaths -> TargetLists(1, WidePaths \cup {NullPath})]}

InitDetect ==
    /\ \/ IsMapWithin(modules, MaxEdges, FALSE)
       \/ modules \in WideMaps
    /\ pc = "ready"
    /\ cycles = <<>>
    /\ rebuilt = "no"
    /\ prevCycles = <<>>
    /\ FixIdle
    /\ RunIdle
    /\ PolicyIdle

\* cycleDetector.detectCycles(modules, config.maxDepth)
DetectCycles ==
    /\ pc = "ready"
    /\ \E maxDepth \in Depths : cycles' = detectCycles(modules, maxDepth)
    /\ pc' = "detected"
    /\ UNCHANGED <<modules, rebuilt, prevCycles>>
    /\ UNCHANGED fixVars
    /\ UNCHANGED <<runVars, policyVars>>

\* The same modules are put into a new map in another order (the order in
\* which the parse tasks complete), for a second run.
Reinsert ==
    /\ pc = "detected"
    /\ rebuilt = "no"
    /\ \E order \in KeyOrders(Range(modules.keys)) :
            /\ order # modules.keys
            /\ modules' = [modules EXCEPT !.keys = order]
    /\ prevCycles' = cycles
    /\ cycles' = <<>>
    /\ rebuilt' = "reordered"
    /\ pc' = "ready"
    /\ UNCHANGED fixVars
    /\ UNCHANGED <<runVars, policyVars>>

\* The same modules with their dangling imports dropped, for a second run.
DropDangling ==
    /\ pc = "detected"
    /\ rebuilt = "no"
    /\ HasDangling(modules)
    /\ modules' = WithoutDangling(modules)
    /\ prevCycles' = cycles
    /\ cycles' = <<>>
    /\ rebuilt' = "pruned"
    /\ pc' = "ready"
    /\ UNCHANGED fixVars
    /\ UNCHANGED <<runVars, policyVars>>

NextDetect == DetectCycles \/ Reinsert \/ DropDangling

SpecDetect == InitDetect /\ [][NextDetect]_vars

(***************************************************************************)
(* FixCyclesUseCase                                                        *)
(***************************************************************************)

\* An optional field: absent, or present with a value.
Undefined == <<>>

Some(x) == <<x>>

\* The FixStrategy enum, in declaration order.
StrategyTypes ==
    <<"extract-shared", "dynamic-import", "dependency-injection", "move-code", "barrel-file">>

\* Values a strategy's score() returns.
Scores == {50, 80}

ManualStep(text, path) == [description |-> text, file |-> path]

\* The FixResults a strategy's fix() may resolve to: fixed, not fixed with
\* manual steps, not fixed with an empty manualSteps list, not fixed with no
\* manualSteps field.
StrategyResults(cycle, type) ==
    {[cycle |-> cycle, strategy |-> type, success |-> TRUE,
      modifiedFiles |-> <<cycle.paths[1]>>, createdFiles |-> <<>>,
      manualSteps |-> Undefined],
     [cycle |-> cycle, strategy |-> type, success |-> FALSE,
      modifiedFiles |-> <<>>, createdFiles |-> <<>>,
      manualSteps |-> Some(<<ManualStep("strategy step", cycle.paths[1])>>)],
     [cycle |-> cycle, strategy |-> type, success |-> FALSE,
      modifiedFiles |-> <<>>, createdFiles |-> <<>>,
      manualSteps |-> Some(<<>>)],
     [cycle |-> cycle, strategy |-> type, success |-> FALSE,
      modifiedFiles |-> <<>>, createdFiles |-> <<>>,
      manualSteps |-> Undefined]}

\* What "await strategy.fix(...)" does: it resolves to a FixResult or throws.
StrategyFix(cycle, type) ==
    {[threw |-> FALSE, result |-> Some(r)] : r \in StrategyResults(cycle, type)}
        \cup {[threw |-> TRUE, result |-> Undefined]}

\* What a registered strategy answers when findApplicableStrategies asks it
\* about a cycle: canFix resolves to false, canFix resolves to true and score
\* returns, or one of the two calls throws.
StrategyAnswers == {"no", "yes", "throws"}

\* A strategy's answers for one cycle: score is only called, and so only
\* has a value, behind a canFix that resolved to true.
StrategyReplies ==
    {r \in [canFix : StrategyAnswers, score : Scores \cup {0}] :
        r.canFix = "yes" <=> r.score # 0}

RECURSIVE findApplicableFrom(_, _, _, _, _, _)
\* The loop of findApplicableStrategies from the i-th registered strategy on;
\* canFix[i] and score[i] are what that strategy answers for the cycle. The
\* loop has no try/catch: a throwing call ends it and the method rejects.
findApplicableFrom(strats, opts, canFix, score, i, found) ==
    IF i > Len(strats)
    THEN [threw |-> FALSE, applicable |-> found]
    ELSE IF opts.strategies # {} /\ strats[i] \notin opts.strategies
    THEN findApplicableFrom(strats, opts, canFix, score, i + 1, found)
    ELSE IF canFix[i] = "throws"
    THEN [threw |-> TRUE, applicable |-> found]
    ELSE IF canFix[i] = "no"
    THEN findApplicableFrom(strats, opts, canFix, score, i + 1, found)
    ELSE findApplicableFrom(strats, opts, canFix, score, i + 1,
                            Append(found, [strategy |-> strats[i], score |-> score[i]]))

findApplicableStrategies(strats, opts, canFix, score) ==
    findApplicableFrom(strats, opts, canFix, score, 1, <<>>)

RECURSIVE insertByScore(_, _)

\* insertByScore putting x in front of the entries with its own score.
insertByScore_BeforeEqual(sorted, x) ==
    IF sorted = <<>>
    THEN <<x>>
    ELSE IF Head(sorted).score - x.score <= 0
         THEN <<x>> \o sorted
         ELSE <<Head(sorted)>> \o insertByScore(Tail(sorted), x)

\* x goes behind every entry whose score is not lower than its own.
insertByScore(sorted, x) ==
    IF sorted = <<>>
    THEN <<x>>
    ELSE IF Head(sorted).score - x.score < 0
         THEN <<x>> \o sorted
         ELSE <<Head(sorted)>> \o insertByScore(Tail(sorted), x)

RECURSIVE sortByScore(_)
\* applicableStrategies.sort((a, b) => b.score - a.score): Array.prototype.sort
\* is stable.
sortByScore(list) ==
    IF list = <<>>
    THEN <<>>
    ELSE insertByScore(sortByScore(SubSeq(list, 1, Len(list) - 1)), list[Len(list)])

\* "if (result.success) return result; if (result.manualSteps) return result;"
\* an array, empty or not, is truthy.
isReturned(result) == result.success \/ result.manualSteps # Undefined

createNoStrategyResult(cycle) ==
    [cycle |-> cycle,
     strategy |-> IF Len(cycle.paths) = 2 THEN cycle.paths[1] ELSE NullPath,
     success |-> FALSE,
     modifiedFiles |-> <<>>,
     createdFiles |-> <<>>,
     manualSteps |-> Some(<<ManualStep("Review the circular dependency and refactor manually",
                                       cycle.paths[1]),
                            ManualStep("Consider extracting shared code or using dependency injection",
                                       cycle.paths[1])>>)]

\* createFailureResult with an empty manualSteps list.
createFailureResult_NoSteps(cycle, attemptedStrategies) ==
    [cycle |-> cycle,
     strategy |-> IF Len(attemptedStrategies) > 0 THEN attemptedStrategies[1].strategy ELSE "",
     success |-> FALSE,
     modifiedFiles |-> <<>>,
     createdFiles |-> <<>>,
     manualSteps |-> Some(<<>>)]

createFailureResult(cycle, attemptedStrategies) ==
    [cycle |-> cycle,
     strategy |-> IF Len(attemptedStrategies) > 0 THEN attemptedStrategies[1].strategy ELSE "",
     success |-> FALSE,
     modifiedFiles |-> <<>>,
     createdFiles |-> <<>>,
     manualSteps |-> Some(<<ManualStep("Manual intervention required to fix this cycle",
                                       cycle.paths[1])>>)]

\* A fix run starts from the cycles a detection run returned, here on a map
\* of /a.ts and /b.ts in which every module is on a returned cycle; the
\* options name no preferred strategy or one.
InitFix ==
    /\ IsMapWithin(modules, MaxFixEdges, TRUE)
    /\ "/c.ts" \notin Range(modules.keys)
    /\ cycles = detectCycles(modules, DefaultMaxDepth)
    /\ \A p \in Range(modules.keys) : \E i \in 1..Len(cycles) : p \in Range(cycles[i].paths)
    /\ cycles # <<>>
    /\ pc = "detected"
    /\ rebuilt = "no"
    /\ prevCycles = <<>>
    /\ \E n \in 0..MaxStrategies : strategies = SubSeq(StrategyTypes, 1, n)
    /\ \E allow \in {{}} \cup {{t} : t \in Range(strategies)} :
            options = [strategies |-> allow, backup |-> TRUE, dryRun |-> FALSE]
    /\ fpc = "idle"
    /\ cycleIdx = 0
    /\ candidates = <<>>
    /\ applicable = <<>>
    /\ tryIdx = 0
    /\ fixCalls = <<>>
    /\ results = <<>>
    /\ fsLog = <<>>
    /\ RunIdle
    /\ PolicyIdle

\* fpc after fixCycle returned for the cycle at cycleIdx.
AfterCycle == IF cycleIdx = Len(cycles) THEN "done" ELSE "next"

\* execute is called: results = [], and the loop over the cycles starts.
Execute ==
    /\ fpc = "idle"
    /\ results' = <<>>
    /\ cycleIdx' = 0
    /\ fpc' = IF cycles = <<>> THEN "done" ELSE "next"
    /\ UNCHANGED <<strategies, options, candidates, applicable, tryIdx, fixCalls, fsLog>>
    /\ UNCHANGED detectVars
    /\ UNCHANGED <<runVars, policyVars>>

\* fixCycle, called on the next cycle, up to its first strategy.fix call, when
\* the registered strategies answer canFix and score: the applicable
\* strategies are gathered and sorted; with none, the no-strategy result is
\* returned. When a canFix or score call throws, nothing catches it: fixCycle
\* and execute reject, and the results gathered so far are never returned.
fixCycleBegin(canFix, score) ==
    LET found == findApplicableStrategies(strategies, options, canFix, score)
    IN  /\ cycleIdx' = cycleIdx + 1
        /\ fixCalls' = <<>>
        /\ IF found.threw
           THEN /\ candidates' = <<>>
                /\ applicable' = <<>>
                /\ results' = results
                /\ tryIdx' = 0
                /\ fpc' = "rejected"
           ELSE /\ candidates' = found.applicable
                /\ applicable' = sortByScore(found.applicable)
                /\ IF found.applicable = <<>>
                   THEN /\ results' = Append(results, createNoStrategyResult(cycles[cycleIdx + 1]))
                        /\ tryIdx' = 0
                        /\ fpc' = IF cycleIdx + 1 = Len(cycles) THEN "done" ELSE "next"
                   ELSE /\ results' = results
                        /\ tryIdx' = 1
                        /\ fpc' = "try"

\* fixCycle with strategies that may answer anything.
BeginFixCycle ==
    /\ fpc = "next"
    /\ \E answers \in [1..Len(strategies) -> StrategyReplies] :
            fixCycleBegin([i \in 1..Len(strategies) |-> answers[i].canFix],
                          [i \in 1..Len(strategies) |-> answers[i].score])
    /\ UNCHANGED <<strategies, options, fsLog>>
    /\ UNCHANGED detectVars
    /\ UNCHANGED <<runVars, policyVars>>

\* nextAttempt with a throwing strategy ending the loop instead of continuing.
nextAttempt_ThrowEndsLoop(out, idx, n) ==
    IF out.threw
    THEN "exhausted"
    ELSE IF isReturned(out.result[1])
    THEN "return"
    ELSE IF idx = n THEN "exhausted" ELSE "continue"

\* Where the loop over the n sorted strategies goes after the idx-th fix call
\* ended as out: the result is returned; or, after a throw (catch, continue)
\* or an unreturned result, the next strategy is tried; behind the last one
\* the loop is left.
nextAttempt(out, idx, n) ==
    IF ~out.threw /\ isReturned(out.result[1])
    THEN "return"
    ELSE IF idx = n THEN "exhausted" ELSE "continue"

\* One turn of the loop "for (const { strategy, score } of applicableStrategies)"
\* in which the awaited strategy.fix ended as out: its result is returned, or
\* the loop goes on, or, behind the last entry, the failure result is returned.
fixCycleTry(out) ==
    /\ fixCalls' = Append(fixCalls, [strategy |-> applicable[tryIdx].strategy,
                                     threw |-> out.threw,
                                     result |-> out.result])
    /\ CASE nextAttempt(out, tryIdx, Len(applicable)) = "return" ->
                /\ results' = Append(results, out.result[1])
                /\ fpc' = AfterCycle
                /\ tryIdx' = tryIdx
         [] nextAttempt(out, tryIdx, Len(applicable)) = "exhausted" ->
                /\ results' = Append(results, createFailureResult(cycles[cycleIdx], applicable))
                /\ fpc' = AfterCycle
                /\ tryIdx' = tryIdx
         [] OTHER ->
                /\ results' = results
                /\ fpc' = "try"
                /\ tryIdx' = tryIdx + 1

\* That turn with a strategy whose fix may end in any way.
TryStrategy ==
    /\ fpc = "try"
    /\ \E out \in StrategyFix(cycles[cycleIdx], applicable[tryIdx].strategy) :
            fixCycleTry(out)
    /\ UNCHANGED <<strategies, options, cycleIdx, candidates, applicable, fsLog>>
    /\ UNCHANGED detectVars
    /\ UNCHANGED <<runVars, policyVars>>

NextFix == Execute \/ BeginFixCycle \/ TryStrategy

SpecFix == InitFix /\ [][NextFix]_vars

(***************************************************************************)
(* The built-in strategies: DynamicImportStrategy and ExtractSharedStrategy *)
(***************************************************************************)

\* path.dirname and path.extname of the module paths of the model, which all
\* lie in the root directory.
dirname(p) == CASE p \in WidePaths -> "/"

extname(p) == CASE p \in WidePaths -> ".ts"

\* cycle.edges.filter((e) => e.importInfo.type === ImportType.STATIC)
staticEdges(cycle) ==
    LET IsStatic(e) == e.importInfo.type = "static"
    IN  SelectSeq(cycle.edges, IsStatic)

DynamicImportStrategy_canFix(cycle) == staticEdges(cycle) # <<>>

DynamicImportStrategy_score(cycle) ==
    LET staticImports == Len(staticEdges(cycle))
        cycleLength == Len(cycle.paths) - 1
    IN  IF cycleLength = 2 /\ staticImports > 0
        THEN 80
        ELSE IF staticImports > 0 THEN 50 ELSE 0

RECURSIVE reduceFewest(_, _, _)
\* staticEdges.reduce((best, current) => currentCount < bestCount ? current : best)
\* from the i-th edge on.
reduceFewest(edges, i, best) ==
    IF i > Len(edges)
    THEN best
    ELSE reduceFewest(edges, i + 1,
                      IF Len(edges[i].importInfo.identifiers) < Len(best.importInfo.identifiers)
                      THEN edges[i]
                      ELSE best)

\* The static edge with the fewest identifiers, the first of them; null
\* without a static edge.
selectEdgeToConvert(cycle) ==
    LET edges == staticEdges(cycle)
    IN  IF Len(edges) = 0 THEN Undefined ELSE Some(reduceFewest(edges, 2, edges[1]))

createManualResult(cycle) ==
    LET edges == staticEdges(cycle)
    IN  [cycle |-> cycle,
         strategy |-> "dynamic-import",
         success |-> FALSE,
         modifiedFiles |-> <<>>,
         createdFiles |-> <<>>,
         manualSteps |->
            Some(IF edges # <<>>
                 THEN <<ManualStep("Convert static import to dynamic import", edges[1].from),
                        ManualStep("Make the parent function async if needed", edges[1].from)>>
                 ELSE <<>>)]

\* A call on the IFileSystem, and whether it went through.
FsCall(op, file, ok) == [op |-> op, file |-> file, ok |-> ok]

\* The IFileSystem call of a fix that fails, if one does.
FsFaults == {"none", "backup", "readFile", "writeFile"}

\* The block of fix without its backup call: the file is read and written
\* straight away.
applyDynamicImport_NoBackup(cycle, targetEdge, fault) ==
    LET file == targetEdge.from
    IN  IF fault = "none"
        THEN [result |-> [cycle |-> cycle, strategy |-> "dynamic-import", success |-> TRUE,
                          modifiedFiles |-> <<file>>, createdFiles |-> <<>>,
                          manualSteps |-> Undefined],
              calls |-> <<FsCall("readFile", file, TRUE), FsCall("writeFile", file, TRUE)>>]
        ELSE [result |-> createManualResult(cycle),
              calls |-> <<FsCall("readFile", file, FALSE)>>]

\* The block "if (!dryRun) { backup; readFile; writeFile; modifiedFiles.push }"
\* and the return behind it; a failing call throws into the catch of fix.
applyDynamicImport(cycle, targetEdge, fault) ==
    LET file == targetEdge.from
    IN  CASE fault = "backup" ->
                [result |-> createManualResult(cycle),
                 calls |-> <<FsCall("backup", file, FALSE)>>]
          [] fault = "readFile" ->
                [result |-> createManualResult(cycle),
                 calls |-> <<FsCall("backup", file, TRUE), FsCall("readFile", file, FALSE)>>]
          [] fault = "writeFile" ->
                [result |-> createManualResult(cycle),
                 calls |-> <<FsCall("backup", file, TRUE), FsCall("readFile", file, TRUE),
                             FsCall("writeFile", file, FALSE)>>]
          [] OTHER ->
                [result |-> [cycle |-> cycle, strategy |-> "dynamic-import", success |-> TRUE,
                             modifiedFiles |-> <<file>>, createdFiles |-> <<>>,
                             manualSteps |-> Undefined],
                 calls |-> <<FsCall("backup", file, TRUE), FsCall("readFile", file, TRUE),
                             FsCall("writeFile", file, TRUE)>>]

\* DynamicImportStrategy.fix entering the file block whatever dryRun is.
DynamicImportStrategy_fix_IgnoresDryRun(cycle, dryRun, fault) ==
    LET targetEdge == selectEdgeToConvert(cycle)
    IN  IF targetEdge = Undefined
        THEN [result |-> createManualResult(cycle), calls |-> <<>>]
        ELSE applyDynamicImport(cycle, targetEdge[1], fault)

\* DynamicImportStrategy.fix: its result and the IFileSystem calls it made.
DynamicImportStrategy_fix(cycle, dryRun, fault) ==
    LET targetEdge == selectEdgeToConvert(cycle)
    IN  IF targetEdge = Undefined
        THEN [result |-> createManualResult(cycle), calls |-> <<>>]
        ELSE IF ~dryRun
        THEN applyDynamicImport(cycle, targetEdge[1], fault)
        ELSE [result |-> [cycle |-> cycle, strategy |-> "dynamic-import", success |-> TRUE,
                          modifiedFiles |-> <<>>, createdFiles |-> <<>>,
                          manualSteps |-> Undefined],
              calls |-> <<>>]

ExtractSharedStrategy_canFix(cycle) ==
    LET cycleLength == Len(cycle.paths) - 1
    IN  cycleLength >= 2 /\ cycleLength <= 4

ExtractSharedStrategy_score(cycle) ==
    LET cycleLength == Len(cycle.paths) - 1
        directories == {dirname(cycle.paths[i]) : i \in 1..(Len(cycle.paths) - 1)}
        sameDirectory == Cardinality(directories) = 1
    IN  IF cycleLength = 2 /\ sameDirectory
        THEN 70
        ELSE IF cycleLength <= 3 /\ sameDirectory
        THEN 60
        ELSE IF sameDirectory THEN 40 ELSE 20

\* path.join(dir, `shared${ext}`) for the first module of the cycle.
determineSharedModulePath(cycle) ==
    dirname(cycle.paths[1]) \o "shared" \o extname(cycle.paths[1])

\* ExtractSharedStrategy.fix: manual steps only, and no call that reads or
\* writes a file.
ExtractSharedStrategy_fix(cycle, dryRun, fault) ==
    LET sharedModulePath == determineSharedModulePath(cycle)
        perModule == [i \in 1..(Len(cycle.paths) - 1) |->
                        ManualStep("Update imports to use shared module", cycle.paths[i])]
    IN  [result |-> [cycle |-> cycle, strategy |-> "extract-shared", success |-> FALSE,
                     modifiedFiles |-> <<>>, createdFiles |-> <<>>,
                     manualSteps |->
                        Some(<<ManualStep("Create a new shared module", sharedModulePath),
                               ManualStep("Move shared types, interfaces, or utility functions to the new module",
                                          sharedModulePath)>> \o perModule)],
         calls |-> <<>>]

\* The strategies the library and the CLI register, in that order.
DefaultStrategies == <<"dynamic-import", "extract-shared">>

canFixOf(type, cycle) ==
    IF type = "dynamic-import"
    THEN DynamicImportStrategy_canFix(cycle)
    ELSE ExtractSharedStrategy_canFix(cycle)

scoreOf(type, cycle) ==
    IF type = "dynamic-import"
    THEN DynamicImportStrategy_score(cycle)
    ELSE ExtractSharedStrategy_score(cycle)

fixOf(type, cycle, dryRun, fault) ==
    IF type = "dynamic-import"
    THEN DynamicImportStrategy_fix(cycle, dryRun, fault)
    ELSE ExtractSharedStrategy_fix(cycle, dryRun, fault)

(***************************************************************************)
(* A fix run of the library: execute with the built-in strategies          *)
(***************************************************************************)

\* The import statements of a map: module and position in its import list.
ImportSlots(m) == UNION {{<<p, i>> : i \in 1..Len(m.imports[p])} : p \in DOMAIN m.imports}

\* What a parsed import statement is: its type and its identifiers.
ImportKinds ==
    {[type |-> "static", identifiers |-> <<"x">>],
     [type |-> "static", identifiers |-> <<"x", "y">>],
     [type |-> "dynamic", identifiers |-> <<>>]}

\* The map with the statement at each slot being of the kind given for it.
Retyped(m, kinds) ==
    [m EXCEPT !.imports =
        [p \in DOMAIN m.imports |->
            [i \in 1..Len(m.imports[p]) |->
                [m.imports[p][i] EXCEPT !.type = kinds[<<p, i>>].type,
                                        !.identifiers = kinds[<<p, i>>].identifiers]]]]

\* JavaScriptParser.parse lists a file's static imports before its dynamic ones.
StaticFirst(m) ==
    \A p \in DOMAIN m.imports : \A i, j \in 1..Len(m.imports[p]) :
        (i < j /\ m.imports[p][i].type = "dynamic") => m.imports[p][j].type = "dynamic"

\* The maps over modules of Paths with up to MaxFixEdges imports, each
\* resolved to a module of the map.
ResolvedMaps ==
    UNION {{MapOf(S, tl) : tl \in {f \in [S -> TargetLists(MaxFixEdges, S)] :
                                        Cardinality(UNION {{<<p, i>> : i \in 1..Len(f[p])} : p \in S})
                                            <= MaxFixEdges}}
           : S \in (SUBSET Paths) \ {{}}}

\* The two rings through all of Paths.
RingMaps ==
    {MapOf(Paths, [p \in Paths |-> <<CASE p = "/a.ts" -> "/b.ts"
                                       [] p = "/b.ts" -> "/c.ts"
                                       [] OTHER -> "/a.ts">>]),
     MapOf(Paths, [p \in Paths |-> <<CASE p = "/a.ts" -> "/c.ts"
                                       [] p = "/b.ts" -> "/a.ts"
                                       [] OTHER -> "/b.ts">>])}

\* Every module of the map is on one of the cycles.
AllOnCycles(m, cs) ==
    \A p \in Range(m.keys) : \E i \in 1..Len(cs) : p \in Range(cs[i].paths)

\* The library's fix run: the registered strategies are the built-in two, the
\* options name no preferred strategy, and the cycle list handed to execute is
\* what detectCycles returned, or that list with one of its cycles once more.
InitDefault ==
    /\ \E base \in ResolvedMaps \cup RingMaps :
       \E kinds \in [ImportSlots(base) -> ImportKinds] :
            LET m == Retyped(base, kinds)
                found == detectCycles(m, DefaultMaxDepth)
            IN  /\ StaticFirst(m)
                /\ found # <<>>
                /\ AllOnCycles(m, found)
                /\ modules = m
                /\ \E again \in 0..Len(found) :
                        cycles = IF again = 0 THEN found ELSE Append(found, found[again])
    /\ pc = "detected"
    /\ rebuilt = "no"
    /\ prevCycles = <<>>
    /\ strategies = DefaultStrategies
    /\ \E backup \in BOOLEAN : \E dryRun \in BOOLEAN :
            options = [strategies |-> {}, backup |-> backup, dryRun |-> dryRun]
    /\ fpc = "idle"
    /\ cycleIdx = 0
    /\ candidates = <<>>
    /\ applicable = <<>>
    /\ tryIdx = 0
    /\ fixCalls = <<>>
    /\ results = <<>>
    /\ fsLog = <<>>
    /\ RunIdle
    /\ PolicyIdle

\* fixCycle up to its first strategy.fix call, the built-in strategies
\* answering for the cycle.
BeginFixCycleDefault ==
    /\ fpc = "next"
    /\ fixCycleBegin([i \in 1..Len(strategies) |->
                        IF canFixOf(strategies[i], cycles[cycleIdx + 1]) THEN "yes" ELSE "no"],
                     [i \in 1..Len(strategies) |-> scoreOf(strategies[i], cycles[cycleIdx + 1])])
    /\ UNCHANGED <<strategies, options, fsLog>>
    /\ UNCHANGED detectVars
    /\ UNCHANGED <<runVars, policyVars>>

\* One turn of the loop of fixCycle with a built-in strategy: its fix makes
\* its calls on the IFileSystem, one of which may fail, and resolves.
TryStrategyDefault ==
    /\ fpc = "try"
    /\ \E fault \in FsFaults :
            LET run == fixOf(applicable[tryIdx].strategy, cycles[cycleIdx], options.dryRun, fault)
            IN  /\ fixCycleTry([threw |-> FALSE, result |-> Some(run.result)])
                /\ fsLog' = fsLog \o run.calls
    /\ UNCHANGED <<strategies, options, cycleIdx, candidates, applicable>>
    /\ UNCHANGED detectVars
    /\ UNCHANGED <<runVars, policyVars>>

NextDefault == Execute \/ BeginFixCycleDefault \/ TryStrategyDefault

SpecDefault == InitDefault /\ [][NextDefault]_vars

(***************************************************************************)
(* DetectCyclesUseCase: a detection run with the analysis cache            *)
(***************************************************************************)

\* The source files of the analysed project.
RunFiles == {"/a.ts", "/b.ts"}

\* What a source file may hold: nothing, or one import of a file next to it.
Contents == {"", "import { x } from './a';", "import { x } from './b';"}

\* AnalysisCache.hashContent: the SHA-256 digest of the content, in hex.
hashContent(content) ==
    CASE content = "" ->
            "e3b0c44298fc1c149afbf4c8996fb92427ae41e4649b934ca495991b7852b855"
      [] content = "import { x } from './a';" ->
            "8e6ae63d700a8c5d6aceea3bfd7317f2d3181f59b8293ad5a56628168718dd6a"
      [] content = "import { x } from './b';" ->
            "f547f9ecfe24bec762d760e4b72aacef4ad2e67280db8aa5fa993426dd6c8c72"

\* The module specifiers of the import statements the parser finds in a
\* content.
importSources(content) ==
    CASE content = "" -> <<>>
      [] content = "import { x } from './a';" -> <<"./a">>
      [] content = "import { x } from './b';" -> <<"./b">>

\* fileSystem.resolveModule: a relative specifier resolved against the
\* directory of the importing file and completed with the extension of the
\* file found on disk; null when there is no such file.
resolveModule(d, from, importPath) ==
    LET resolved == CASE importPath = "./a" -> dirname(from) \o "a.ts"
                      [] importPath = "./b" -> dirname(from) \o "b.ts"
    IN  IF resolved \in DOMAIN d THEN resolved ELSE NullPath

\* parser.parse(file, content): the Module of the file, with an import for
\* every local specifier that resolves to a file on disk.
parse(d, file, content) ==
    LET sources == importSources(content)
        targets == [i \in 1..Len(sources) |-> resolveModule(d, file, sources[i])]
        Found(target) == target # NullPath
    IN  [path |-> file, imports |-> ImportsOf(SelectSeq(targets, Found))]

\* new Map<ModulePath, Module>()
EmptyModules == [keys |-> <<>>, imports |-> EmptyMap]

\* modules.set(file, module) with every other entry of the map dropped.
setModule_Replace(m, file, module) ==
    [keys |-> <<file>>, imports |-> MapSet(EmptyMap, file, module.imports)]

\* modules.set(file, module): a new key goes last, a key the map has keeps
\* its place.
setModule(m, file, module) ==
    [keys |-> IF ModulesHas(m, file) THEN m.keys ELSE Append(m.keys, file),
     imports |-> MapSet(m.imports, file, module.imports)]

\* A value of cycfix-cache.json or of cacheState: what kind of thing it is,
\* and the modules object of an object that has one.
CacheValue(kind, hasModules, entries) ==
    [kind |-> kind, hasModules |-> hasModules, modules |-> entries]

\* The CacheState that execute saves after a run over the files of S that
\* had the contents d.
SavedCache(S, d) ==
    CacheValue("object", TRUE,
               [f \in S |-> [hash |-> hashContent(d[f]), module |-> parse(d, f, d[f])]])

\* The states cycfix-cache.json may be in when a run starts: not there, not
\* readable, no JSON text, the JSON text null, a JSON object without a
\* modules member, or what an earlier run saved.
CacheFiles ==
    {CacheValue(kind, FALSE, EmptyMap) : kind \in {"missing", "unreadable", "unparsable", "null"}}
    \cup {CacheValue("object", FALSE, EmptyMap)}
    \cup {SavedCache(S, d) : S \in SUBSET RunFiles, d \in [RunFiles -> Contents]}

\* AnalysisCache.load: the parsed text of the cache file; { modules: {} }
\* when reading the file or JSON.parse throws.
AnalysisCache_load(file) ==
    IF file.kind \in {"missing", "unreadable", "unparsable"}
    THEN CacheValue("object", TRUE, EmptyMap)
    ELSE file

\* AnalysisCache.save keeping the entries of the old file that the new state
\* has no entry for.
AnalysisCache_save_Merge(file, state) ==
    IF file.kind = "object" /\ file.hasModules
    THEN CacheValue("object", TRUE,
                    [f \in DOMAIN file.modules \cup DOMAIN state.modules |->
                        IF f \in DOMAIN state.modules THEN state.modules[f] ELSE file.modules[f]])
    ELSE state

\* AnalysisCache.save: the whole file is written anew from the state.
AnalysisCache_save(file, state) == state

\* cacheState?.modules[file]: undefined for no cacheState, a TypeError for
\* an object without modules, else the entry of the file if there is one.
cacheLookup(state, file) ==
    [threw |-> state.kind = "object" /\ ~state.hasModules,
     entry |-> IF state.kind = "object" /\ state.hasModules /\ MapHas(state.modules, file)
               THEN Some(state.modules[file])
               ELSE Undefined]

\* The cache test passing on any entry for the file, whatever its hash.
isCacheHit_AnyEntry(cachedModule, hash) == cachedModule # Undefined

\* cachedModule && cachedModule.hash === hash
isCacheHit(cachedModule, hash) ==
    cachedModule # Undefined /\ cachedModule[1].hash = hash

\* findFiles: the glob result, cut to maxFiles when maxFiles is set and
\* smaller than the number of files.
findFiles(globbed, maxFiles) ==
    IF maxFiles # 0 /\ Len(globbed) > maxFiles
    THEN SubSeq(globbed, 1, maxFiles)
    ELSE globbed

\* The entry pushed to warnings in the catch of a file's callback.
Warning(file) == [message |-> "Failed to parse " \o file, file |-> file]

\* isPartial reported only from the second warning on.
isPartial_SecondWarning(ws) == Len(ws) > 1

\* isPartial: warnings.length > 0
isPartial(ws) == Len(ws) > 0

\* The AnalysisResult of execute (without its durations).
createAnalysisResult(found, m, ws, discovered, hits) ==
    [cycles |-> found,
     totalModules |-> Len(m.keys),
     warnings |-> ws,
     isPartial |-> isPartial(ws),
     metrics |-> [filesDiscovered |-> Len(discovered),
                  filesAnalyzed |-> Len(m.keys),
                  cachedModules |-> hits]]

\* The state handed to cache.save: for every entry of modules, its hash
\* from hashes (each module is set together with its hash) and the module.
stateToSave(m, hs) ==
    CacheValue("object", TRUE,
               [key \in Range(m.keys) |->
                    [hash |-> hs[key], module |-> [path |-> key, imports |-> m.imports[key]]]])

\* The callback of a file has ended, in its try block or in its catch.
Settled(status) == status \in {"hit", "parsed", "readFailed", "lookupFailed", "parseFailed"}

\* The AnalysisConfig values of a run: the cache on or off, maxFiles unset
\* (0) or 1, and the files the exclude patterns match.
Configs ==
    [enableCache : BOOLEAN, maxFiles : {0, 1}, exclude : SUBSET RunFiles,
     maxDepth : {DefaultMaxDepth}]

\* The locals of execute and parseModules before and between runs.
RunLocalsIdle ==
    /\ rpc = "idle"
    /\ files = <<>>
    /\ cacheState = CacheValue("undefined", FALSE, EmptyMap)
    /\ tasks = EmptyMap
    /\ hashes = EmptyMap
    /\ cacheHits = 0
    /\ warnings = <<>>
    /\ parserCalls = <<>>
    /\ analysisResult = <<>>
    /\ cacheSaved = "none"
    /\ modules = EmptyModules
    /\ cycles = <<>>

InitRun ==
    /\ disk \in [RunFiles -> Contents]
    /\ cacheFile \in CacheFiles
    /\ config \in Configs
    /\ RunLocalsIdle
    /\ pc = "ready"
    /\ rebuilt = "no"
    /\ prevCycles = <<>>
    /\ FixIdle
    /\ PolicyIdle

\* execute up to the start of the callbacks of parseModules: findFiles,
\* cache.load when the cache is enabled, then files.map, which runs every
\* callback as far as its readFile call.
StartRun ==
    /\ rpc = "idle"
    /\ \E globbed \in KeyOrders(DOMAIN disk \ config.exclude) :
            files' = findFiles(globbed, config.maxFiles)
    /\ cacheState' = IF config.enableCache
                     THEN AnalysisCache_load(cacheFile)
                     ELSE CacheValue("undefined", FALSE, EmptyMap)
    /\ tasks' = [f \in Range(files') |-> "reading"]
    /\ modules' = EmptyModules
    /\ hashes' = EmptyMap
    /\ cacheHits' = 0
    /\ warnings' = <<>>
    /\ parserCalls' = <<>>
    /\ rpc' = "parsing"
    /\ UNCHANGED <<disk, cacheFile, config, analysisResult, cacheSaved>>
    /\ UNCHANGED <<pc, cycles, rebuilt, prevCycles>>
    /\ UNCHANGED fixVars
    /\ UNCHANGED policyVars

\* The catch of the callback of a file: one warning, and the callback ends.
taskFails(file, status) ==
    /\ tasks' = [tasks EXCEPT ![file] = status]
    /\ warnings' = Append(warnings, Warning(file))
    /\ UNCHANGED <<modules, hashes, cacheHits, parserCalls>>

\* The callback of a file from the content readFile gave to its return or
\* its parser.parse call.
taskAfterRead(file, content) ==
    LET hash == hashContent(content)
        looked == cacheLookup(cacheState, file)
    IN  IF looked.threw
        THEN taskFails(file, "lookupFailed")
        ELSE IF isCacheHit(looked.entry, hash)
        THEN /\ modules' = setModule(modules, file, looked.entry[1].module)
             /\ hashes' = MapSet(hashes, file, hash)
             /\ cacheHits' = cacheHits + 1
             /\ tasks' = [tasks EXCEPT ![file] = "hit"]
             /\ UNCHANGED <<warnings, parserCalls>>
        ELSE /\ parserCalls' = Append(parserCalls, file)
             /\ tasks' = [tasks EXCEPT ![file] = "parsing"]
             /\ UNCHANGED <<modules, hashes, cacheHits, warnings>>

\* The readFile call of the callback of a file settles: rejected, the
\* callback goes to its catch; resolved, it goes on with the content.
ReadFileSettled(file) ==
    /\ rpc = "parsing"
    /\ file \in DOMAIN tasks
    /\ tasks[file] = "reading"
    /\ \/ taskFails(file, "readFailed")
       \/ taskAfterRead(file, disk[file])
    /\ UNCHANGED <<disk, cacheFile, config, rpc, files, cacheState, analysisResult, cacheSaved>>
    /\ UNCHANGED <<pc, cycles, rebuilt, prevCycles>>
    /\ UNCHANGED fixVars
    /\ UNCHANGED policyVars

\* The parser.parse call of the callback of a file settles: rejected, the
\* callback goes to its catch; resolved, the module and the hash are set.
ParseSettled(file) ==
    /\ rpc = "parsing"
    /\ file \in DOMAIN tasks
    /\ tasks[file] = "parsing"
    /\ \/ taskFails(file, "parseFailed")
       \/ /\ modules' = setModule(modules, file,
                                  [parse(disk, file, disk[file]) EXCEPT !.path = file])
          /\ hashes' = MapSet(hashes, file, hashContent(disk[file]))
          /\ tasks' = [tasks EXCEPT ![file] = "parsed"]
          /\ UNCHANGED <<cacheHits, warnings, parserCalls>>
    /\ UNCHANGED <<disk, cacheFile, config, rpc, files, cacheState, analysisResult, cacheSaved>>
    /\ UNCHANGED <<pc, cycles, rebuilt, prevCycles>>
    /\ UNCHANGED fixVars
    /\ UNCHANGED policyVars

\* cache.save in its try block: the file is written, or mkdir or writeFile
\* rejects and leaves the old file or a cut-off text behind.
saveCache ==
    \/ /\ cacheSaved' = "ok"
       /\ cacheFile' = AnalysisCache_save(cacheFile, stateToSave(modules, hashes))
    \/ /\ cacheSaved' = "failed"
       /\ cacheFile' \in {cacheFile, CacheValue("unparsable", FALSE, EmptyMap)}

\* execute after Promise.all: detectCycles, the result, and the saving of
\* the cache when the cache is enabled.
FinishRun ==
    /\ rpc = "parsing"
    /\ \A f \in DOMAIN tasks : Settled(tasks[f])
    /\ cycles' = detectCycles(modules, config.maxDepth)
    /\ analysisResult' = Some(createAnalysisResult(cycles', modules, warnings, files, cacheHits))
    /\ IF config.enableCache
       THEN saveCache
       ELSE UNCHANGED <<cacheFile, cacheSaved>>
    /\ rpc' = "done"
    /\ UNCHANGED <<disk, config, files, cacheState, tasks, hashes, cacheHits, warnings, parserCalls>>
    /\ UNCHANGED <<modules, pc, rebuilt, prevCycles>>
    /\ UNCHANGED fixVars
    /\ UNCHANGED policyVars

\* After a run a source file is written with some content; the locals of
\* the run are gone, and execute can be called again.
EditFile ==
    /\ rpc = "done"
    /\ \E file \in DOMAIN disk : \E content \in Contents :
            disk' = [disk EXCEPT ![file] = content]
    /\ rpc' = "idle"
    /\ files' = <<>>
    /\ cacheState' = CacheValue("undefined", FALSE, EmptyMap)
    /\ tasks' = EmptyMap
    /\ hashes' = EmptyMap
    /\ cacheHits' = 0
    /\ warnings' = <<>>
    /\ parserCalls' = <<>>
    /\ analysisResult' = <<>>
    /\ cacheSaved' = "none"
    /\ modules' = EmptyModules
    /\ cycles' = <<>>
    /\ UNCHANGED <<cacheFile, config>>
    /\ UNCHANGED <<pc, rebuilt, prevCycles>>
    /\ UNCHANGED fixVars
    /\ UNCHANGED policyVars

NextRun ==
    \/ StartRun
    \/ \E file \in RunFiles : ReadFileSettled(file)
    \/ \E file \in RunFiles : ParseSettled(file)
    \/ FinishRun
    \/ EditFile

SpecRun == InitRun /\ [][NextRun]_vars

(***************************************************************************)
(* DependencyPolicyEnforcer                                                *)
(***************************************************************************)

\* Length of a generated boundary pattern.
MaxPatternLen == 4

\* Length of a generated root-relative path.
MaxPathLen == 3

\* Number of boundary rules of an enforcer.
MaxRules == 2

\* Number of cycle edges in an AnalysisResult handed to evaluate.
MaxPolicyEdges == 2

\* Strings of patterns and paths are sequences of their characters.

\* "/tmp/cycfix"
RootDir ==
    <<"/", "t", "m", "p", "/", "c", "y", "c", "f", "i", "x">>

\* "src/domain/**"
SrcDomainAll ==
    <<"s", "r", "c", "/", "d", "o", "m", "a", "i", "n", "/", "*", "*">>

\* "src/infrastructure/**"
SrcInfrastructureAll ==
    <<"s", "r", "c", "/", "i", "n", "f", "r", "a", "s", "t", "r", "u", "c",
      "t", "u", "r", "e", "/", "*", "*">>

\* "src/*/user.ts"
SrcAnyUser ==
    <<"s", "r", "c", "/", "*", "/", "u", "s", "e", "r", ".", "t", "s">>

\* "src/domain/user.ts"
RelUserTs ==
    <<"s", "r", "c", "/", "d", "o", "m", "a", "i", "n", "/", "u", "s", "e",
      "r", ".", "t", "s">>

\* "src/infrastructure/db.ts"
RelDbTs ==
    <<"s", "r", "c", "/", "i", "n", "f", "r", "a", "s", "t", "r", "u", "c",
      "t", "u", "r", "e", "/", "d", "b", ".", "t", "s">>

\* "src/domain/core/user.ts"
RelCoreUserTs ==
    <<"s", "r", "c", "/", "d", "o", "m", "a", "i", "n", "/", "c", "o", "r",
      "e", "/", "u", "s", "e", "r", ".", "t", "s">>

\* The absolute path of a file below rootDir.
InRoot(relative) == RootDir \o <<"/">> \o relative

\* The characters of the class /[.+^${}()|[\]\\]/.
RegExpSpecials == {".", "+", "^", "$", "{", "}", "(", ")", "|", "[", "]", "\\"}

RECURSIVE escapeSpecials(_)

\* pattern.replace(/[.+^${}()|[\]\\]/g, '\\$&')
escapeSpecials(text) ==
    IF text = <<>>
    THEN <<>>
    ELSE (IF Head(text) \in RegExpSpecials THEN <<"\\", Head(text)>> ELSE <<Head(text)>>)
         \o escapeSpecials(Tail(text))

RECURSIVE replaceDoubleStar(_)

\* .replace(/\*\*/g, '.*'): the matches are taken from left to right and
\* do not overlap.
replaceDoubleStar(text) ==
    IF text = <<>>
    THEN <<>>
    ELSE IF Len(text) >= 2 /\ text[1] = "*" /\ text[2] = "*"
    THEN <<".", "*">> \o replaceDoubleStar(SubSeq(text, 3, Len(text)))
    ELSE <<Head(text)>> \o replaceDoubleStar(Tail(text))

RECURSIVE replaceStar(_)

\* .replace(/\*/g, '[^/]*'), applied to the text the replace before it
\* returned.
replaceStar(text) ==
    IF text = <<>>
    THEN <<>>
    ELSE (IF Head(text) = "*" THEN <<"[", "^", "/", "]", "*">> ELSE <<Head(text)>>)
         \o replaceStar(Tail(text))

\* compilePattern: the source of the RegExp built from a pattern.
compilePattern(pattern) ==
    <<"^">> \o replaceStar(replaceDoubleStar(escapeSpecials(pattern))) \o <<"$">>

\* The length of the atom at i of a RegExp source: an escaped character, the
\* class [^/], or one character.
atomLength(re, i) ==
    IF re[i] = "\\" THEN 2 ELSE IF re[i] = "[" THEN 4 ELSE 1

\* The atom at i of a RegExp source matches the character c: an escaped
\* character matches itself, [^x] anything but x, and . anything (paths
\* have no line terminators).
atomAccepts(re, i, c) ==
    IF re[i] = "\\"
    THEN c = re[i + 1]
    ELSE IF re[i] = "["
    THEN c # re[i + 2]
    ELSE IF re[i] = "."
    THEN TRUE
    ELSE c = re[i]

RECURSIVE regexMatch(_, _, _, _)

\* The RegExp source re from i on matches the text from j to its end; an
\* atom followed by * matches any run of characters it accepts.
regexMatch(re, i, text, j) ==
    IF i > Len(re)
    THEN j > Len(text)
    ELSE LET n == atomLength(re, i)
         IN  IF i + n <= Len(re) /\ re[i + n] = "*"
             THEN \E k \in j..(Len(text) + 1) :
                    /\ \A x \in j..(k - 1) : atomAccepts(re, i, text[x])
                    /\ regexMatch(re, i + n + 1, text, k)
             ELSE /\ j <= Len(text)
                  /\ atomAccepts(re, i, text[j])
                  /\ regexMatch(re, i + n, text, j + 1)

\* RegExp.prototype.test for a source of the form ^...$
RegExp_test(re, text) == regexMatch(SubSeq(re, 2, Len(re) - 1), 1, text, 1)

\* normalize: path.relative(rootDir, filePath) for a file below rootDir, as
\* the files of an analysis are, with every backslash made a slash.
normalize(rootDir, filePath) ==
    LET relative == SubSeq(filePath, Len(rootDir) + 2, Len(filePath))
    IN  [i \in 1..Len(relative) |-> IF relative[i] = "\\" THEN "/" ELSE relative[i]]

\* The constructor: every rule with its default severity and its matchers.
compileRules(rawRules) ==
    [i \in 1..Len(rawRules) |->
        [name |-> rawRules[i].name,
         from |-> rawRules[i].from,
         to |-> rawRules[i].to,
         severity |-> IF rawRules[i].severity = Undefined THEN "error" ELSE rawRules[i].severity[1],
         fromMatcher |-> compilePattern(rawRules[i].from),
         toMatcher |-> compilePattern(rawRules[i].to)]]

\* The violation pushed for an edge and a rule (without its message).
PolicyViolation(rule, fromRelative, toRelative, cycle) ==
    [rule |-> rule.name, severity |-> rule.severity, from |-> fromRelative,
     to |-> toRelative, cycleId |-> cycle.id]

\* The loop over the rules for one edge, left at the first rule that
\* matches.
edgeViolations_FirstRuleOnly(compiled, rootDir, cycle, edge) ==
    LET fromRelative == normalize(rootDir, edge.from)
        toRelative == normalize(rootDir, edge.to)
        Matches(rule) == /\ RegExp_test(rule.fromMatcher, fromRelative)
                         /\ RegExp_test(rule.toMatcher, toRelative)
        matching == SelectSeq(compiled, Matches)
    IN  IF matching = <<>>
        THEN <<>>
        ELSE <<PolicyViolation(matching[1], fromRelative, toRelative, cycle)>>

\* The loop over the rules for one edge: a violation for every rule both
\* of whose matchers test true, in rule order.
edgeViolations(compiled, rootDir, cycle, edge) ==
    LET fromRelative == normalize(rootDir, edge.from)
        toRelative == normalize(rootDir, edge.to)
        Matches(rule) == /\ RegExp_test(rule.fromMatcher, fromRelative)
                         /\ RegExp_test(rule.toMatcher, toRelative)
        matching == SelectSeq(compiled, Matches)
    IN  [i \in 1..Len(matching) |->
            PolicyViolation(matching[i], fromRelative, toRelative, cycle)]

RECURSIVE cycleViolations(_, _, _, _)

\* The loop over the edges of one cycle, from edge k on.
cycleViolations(compiled, rootDir, cycle, k) ==
    IF k > Len(cycle.edges)
    THEN <<>>
    ELSE edgeViolations(compiled, rootDir, cycle, cycle.edges[k])
         \o cycleViolations(compiled, rootDir, cycle, k + 1)

RECURSIVE evaluateFrom(_, _, _, _)

\* The loop over result.cycles, from cycle c on.
evaluateFrom(compiled, rootDir, found, c) ==
    IF c > Len(found)
    THEN <<>>
    ELSE cycleViolations(compiled, rootDir, found[c], 1)
         \o evaluateFrom(compiled, rootDir, found, c + 1)

\* DependencyPolicyEnforcer.evaluate
evaluate(compiled, rootDir, found) ==
    IF Len(compiled) = 0 THEN <<>> ELSE evaluateFrom(compiled, rootDir, found, 1)

\* Characters of the generated patterns and of the generated paths.
PatternChars == {"d", "/", "*"}

PathChars == {"d", "/"}

ShortPatterns == UNION {[1..n -> PatternChars] : n \in 1..MaxPatternLen}

\* The relative paths path.relative returns for files below the root:
\* segments that are not empty, with one slash between them.
ShortPaths ==
    {s \in UNION {[1..n -> PathChars] : n \in 1..MaxPathLen} :
        /\ s[1] # "/"
        /\ s[Len(s)] # "/"
        /\ \A i \in 1..(Len(s) - 1) : ~(s[i] = "/" /\ s[i + 1] = "/")}

\* A boundary rule as configured.
BoundaryRule(name, from, to, severity) ==
    [name |-> name, from |-> from, to |-> to, severity |-> severity]

\* The rule of the enforcer's test, its reverse, and a rule with a single
\* star and a dot.
TestRules ==
    {BoundaryRule("domain-to-infra", SrcDomainAll, SrcInfrastructureAll, Undefined),
     BoundaryRule("infra-to-domain", SrcInfrastructureAll, SrcDomainAll, Some("warn")),
     BoundaryRule("user-to-db", SrcAnyUser, RelDbTs, Undefined)}

\* A cycle edge (without its importInfo).
PolicyEdge(from, to) == [from |-> from, to |-> to]

TestEdges ==
    {PolicyEdge(InRoot(RelUserTs), InRoot(RelDbTs)),
     PolicyEdge(InRoot(RelDbTs), InRoot(RelUserTs)),
     PolicyEdge(InRoot(RelCoreUserTs), InRoot(RelDbTs))}

\* The cycles of a result whose edges are es: all in one cycle, or the
\* first cut of them in one cycle and the others in a second.
CyclesOf(es, cut) ==
    IF cut = 0
    THEN <<[id |-> "cycle-1", edges |-> es]>>
    ELSE <<[id |-> "cycle-1", edges |-> SubSeq(es, 1, cut)],
           [id |-> "cycle-2", edges |-> SubSeq(es, cut + 1, Len(es))]>>

\* An enforcer with up to MaxRules of the test rules and a result with up
\* to MaxPolicyEdges of the test edges; or an enforcer with one rule whose
\* from is any short pattern and a result with one edge from any short path.
InitPolicy ==
    /\ \/ /\ \E n \in 0..MaxRules : \E raw \in [1..n -> TestRules] :
                rules = compileRules(raw)
          /\ \E k \in 1..MaxPolicyEdges : \E es \in [1..k -> TestEdges] :
             \E cut \in 0..(k - 1) :
                evaluated = CyclesOf(es, cut)
       \/ /\ \E pattern \in ShortPatterns :
                rules = compileRules(<<BoundaryRule("short", pattern, <<"d">>, Undefined)>>)
          /\ \E relative \in ShortPaths :
                evaluated = CyclesOf(<<PolicyEdge(InRoot(relative), InRoot(<<"d">>))>>, 0)
    /\ ppc = "idle"
    /\ violations = <<>>
    /\ modules = EmptyModules
    /\ pc = "ready"
    /\ cycles = <<>>
    /\ rebuilt = "no"
    /\ prevCycles = <<>>
    /\ FixIdle
    /\ RunIdle

\* enforcer.evaluate(result)
Evaluate ==
    /\ ppc = "idle"
    /\ violations' = evaluate(rules, RootDir, evaluated)
    /\ ppc' = "evaluated"
    /\ UNCHANGED <<rules, evaluated>>
    /\ UNCHANGED detectVars
    /\ UNCHANGED fixVars
    /\ UNCHANGED runVars

NextPolicy == Evaluate

SpecPolicy == InitPolicy /\ [][NextPolicy]_vars

(***************************************************************************)
(* Graph notions the claims are stated in                                  *)
(***************************************************************************)

Keys(m) == Range(m.keys)

\* p imports q, both modules of the map.
Imports(m, p, q) ==
    /\ p \in Keys(m)
    /\ q \in Keys(m)
    /\ \E i \in 1..Len(m.imports[p]) : m.imports[p][i].resolvedPath = q

Successors(m, S) == {q \in Keys(m) : \E p \in S : Imports(m, p, q)}

RECURSIVE Closure(_, _)
Closure(m, S) ==
    LET T == S \cup Successors(m, S) IN IF T = S THEN S ELSE Closure(m, T)

\* For every module, the modules reachable from it by one or more resolved
\* imports.
Reach(m) == [p \in Keys(m) |-> Closure(m, Successors(m, {p}))]

\* With R = Reach(m): p can reach itself.
OnCycle(R, p) == p \in R[p]

\* With R = Reach(m): the strongly connected component of p.
Component(R, p) == {p} \cup {q \in R[p] : p \in R[q]}

\* With R = Reach(m): the components that have more than one module or a
\* self-importing module.
CyclicComponents(R) == {Component(R, p) : p \in {q \in DOMAIN R : OnCycle(R, q)}}

NodeSet(cycle) == Range(cycle.paths)

Ids(cs) == {cs[i].id : i \in 1..Len(cs)}

NodeSets(cs) == {NodeSet(cs[i]) : i \in 1..Len(cs)}

Detected == pc = "detected"

(***************************************************************************)
(* Claims about the cycle detector                                         *)
(***************************************************************************)

\* C1: on a graph in which no module can reach itself by resolved imports,
\* detectCycles returns an empty list.
C1_AcyclicGivesNoCycles ==
    Detected =>
        LET R == Reach(modules)
        IN  (\A p \in Keys(modules) : ~OnCycle(R, p)) => cycles = <<>>

C1_Witness ==
    /\ Detected
    /\ \A p \in Keys(modules) : ~OnCycle(Reach(modules), p)
    /\ \E p, q, r \in Keys(modules) :
            p # q /\ q # r /\ Imports(modules, p, q) /\ Imports(modules, q, r)
    /\ cycles = <<>>

\* C2: detectCycles returns exactly one Cycle per strongly connected component
\* that has more than one module or a self-importing module, none for any
\* other component, and every module on a Cycle's path is in that component.
C2_OneCyclePerComponent ==
    Detected =>
        LET CC == CyclicComponents(Reach(modules))
        IN  /\ Len(cycles) = Cardinality(CC)
            /\ \A C \in CC :
                    Cardinality({i \in 1..Len(cycles) : NodeSet(cycles[i]) \subseteq C}) = 1
            /\ \A i \in 1..Len(cycles) : \E C \in CC : NodeSet(cycles[i]) \subseteq C

\* Two disjoint 2-node cycles /a.ts <-> /b.ts and /c.ts <-> /d.ts give 2 Cycles.
C2_Witness ==
    /\ Detected
    /\ CyclicComponents(Reach(modules)) = {{"/a.ts", "/b.ts"}, {"/c.ts", "/d.ts"}}
    /\ Len(cycles) = 2
    /\ NodeSets(cycles) = {{"/a.ts", "/b.ts"}, {"/c.ts", "/d.ts"}}

\* C3: two runs on the same graph, the modules inserted into the map in two
\* different orders, give Cycles with identical ids and identical node sets.
C3_SameIdsInAnyInsertionOrder ==
    (Detected /\ rebuilt = "reordered") =>
        /\ Ids(cycles) = Ids(prevCycles)
        /\ NodeSets(cycles) = NodeSets(prevCycles)

\* C4: two cycle paths that visit the same set of modules receive the same
\* id, whatever node the path starts from and whatever order it lists them in.
C4_IdDependsOnNodeSetOnly ==
    Detected =>
        \A i \in 1..Len(cycles) : \A j \in 1..Len(prevCycles) :
            NodeSet(cycles[i]) = NodeSet(prevCycles[j]) => cycles[i].id = prevCycles[j].id

\* C5: every returned Cycle has a closed, simple path: paths[0] = paths[last]
\* and paths[0..last-1] are pairwise distinct.
C5_PathClosedAndSimple ==
    Detected =>
        \A i \in 1..Len(cycles) :
            LET ps == cycles[i].paths
            IN  /\ ps[1] = ps[Len(ps)]
                /\ \A a, b \in 1..(Len(ps) - 1) : a # b => ps[a] # ps[b]

\* C6: edges has len(paths)-1 entries; edges[i] goes from paths[i] to
\* paths[i+1] and carries the first import, in source order, of paths[i]
\* whose resolvedPath is paths[i+1].
C6_EdgesFollowPath ==
    Detected =>
        \A i \in 1..Len(cycles) :
            LET ps == cycles[i].paths
                es == cycles[i].edges
            IN  /\ Len(es) = Len(ps) - 1
                /\ \A k \in 1..Len(es) :
                        /\ es[k].from = ps[k]
                        /\ es[k].to = ps[k + 1]
                        /\ \E n \in 1..Len(modules.imports[ps[k]]) :
                                /\ modules.imports[ps[k]][n] = es[k].importInfo
                                /\ es[k].importInfo.resolvedPath = ps[k + 1]
                                /\ \A n2 \in 1..(n - 1) :
                                        modules.imports[ps[k]][n2].resolvedPath # ps[k + 1]

\* A cycle edge whose module imports the target twice: the first is taken.
C6_Witness ==
    /\ Detected
    /\ \E i \in 1..Len(cycles) : \E k \in 1..Len(cycles[i].edges) :
            LET e == cycles[i].edges[k]
            IN  /\ e.from # e.to
                /\ e.importInfo.line = 1
                /\ Cardinality({n \in 1..Len(modules.imports[e.from]) :
                                    modules.imports[e.from][n].resolvedPath = e.to}) = 2

\* Cycles whose node set is {p, q}.
CyclesOn(p, q) == {i \in 1..Len(cycles) : NodeSet(cycles[i]) = {p, q}}

\* C7 as stated: in every graph where A imports B and B imports A there is
\* exactly one Cycle with node set {A, B}, and it has 2 edges.
C7_MutualImportOriginal ==
    Detected =>
        \A p, q \in Keys(modules) :
            (p # q /\ Imports(modules, p, q) /\ Imports(modules, q, p)) =>
                /\ Cardinality(CyclesOn(p, q)) = 1
                /\ \A i \in CyclesOn(p, q) : Len(cycles[i].edges) = 2

\* C7 amended: the same when neither A nor B imports itself and no other
\* module lies on a cycle through A or B ({A, B} is a whole component).
C7_MutualImport ==
    Detected =>
        \A p, q \in Keys(modules) :
            (/\ p # q
             /\ Imports(modules, p, q) /\ Imports(modules, q, p)
             /\ ~Imports(modules, p, p) /\ ~Imports(modules, q, q)
             /\ Component(Reach(modules), p) = {p, q}) =>
                /\ Cardinality(CyclesOn(p, q)) = 1
                /\ \A i \in CyclesOn(p, q) :
                        /\ Len(cycles[i].edges) = 2
                        /\ Len(cycles[i].paths) = 3

C7_Witness ==
    /\ Detected
    /\ Keys(modules) = {"/a.ts", "/b.ts"}
    /\ Imports(modules, "/a.ts", "/b.ts") /\ Imports(modules, "/b.ts", "/a.ts")
    /\ ~Imports(modules, "/a.ts", "/a.ts") /\ ~Imports(modules, "/b.ts", "/b.ts")
    /\ Len(cycles) = 1
    /\ NodeSet(cycles[1]) = {"/a.ts", "/b.ts"}
    /\ Len(cycles[1].edges) = 2

\* C8: a self-importing module on no cycle through another module yields
\* exactly one Cycle, with paths = [A, A] and the single edge A -> A; a
\* single-module component without a self-import yields no Cycle.
C8_SelfLoop ==
    Detected =>
        LET R == Reach(modules)
        IN  \A p \in Keys(modules) :
                Component(R, p) = {p} =>
                    LET mine == {i \in 1..Len(cycles) : p \in NodeSet(cycles[i])}
                    IN  IF Imports(modules, p, p)
                        THEN /\ Cardinality(mine) = 1
                             /\ \A i \in mine :
                                    /\ cycles[i].paths = <<p, p>>
                                    /\ Len(cycles[i].edges) = 1
                                    /\ cycles[i].edges[1].from = p
                                    /\ cycles[i].edges[1].to = p
                        ELSE mine = {}

C8_Witness ==
    /\ Detected
    /\ \E p, q \in Keys(modules) :
            /\ p # q
            /\ Imports(modules, p, p) /\ Component(Reach(modules), p) = {p}
            /\ ~Imports(modules, q, q) /\ Component(Reach(modules), q) = {q}
            /\ \E i \in 1..Len(cycles) : cycles[i].paths = <<p, p>>

\* C9: imports whose resolvedPath is null or no key of the map are skipped:
\* the run completes and returns the same cycles as on the map with those
\* imports removed.
C9_DanglingSkipped ==
    (Detected /\ rebuilt = "pruned") => cycles = prevCycles

C9_Witness ==
    /\ Detected
    /\ rebuilt = "pruned"
    /\ cycles # <<>>
    /\ cycles = prevCycles

(***************************************************************************)
(* Claims about the fix orchestrator                                       *)
(***************************************************************************)

\* The place of the i-th gathered candidate in descending score order, ties
\* in registration order.
PlaceOf(cands, i) ==
    1 + Cardinality({j \in 1..Len(cands) :
                        \/ cands[j].score > cands[i].score
                        \/ cands[j].score = cands[i].score /\ j < i})

ExpectedOrder(cands) ==
    [k \in 1..Len(cands) |-> cands[CHOOSE i \in 1..Len(cands) : PlaceOf(cands, i) = k]]

\* A fix call whose result is a fix or carries manual steps.
AcceptedCall(call) ==
    /\ ~call.threw
    /\ \/ call.result[1].success
       \/ call.result[1].manualSteps # Undefined /\ call.result[1].manualSteps[1] # <<>>

\* C10: for each cycle strategy.fix is called on the candidates one at a time
\* in descending score order, ties in registration order; a call is made only
\* while no result has been returned for the cycle, and an accepted result is
\* returned at once.
C10_TriedInScoreOrder ==
    [][(cycleIdx' = cycleIdx /\ fixCalls' # fixCalls) =>
            LET n == Len(fixCalls')
            IN  /\ n = Len(fixCalls) + 1
                /\ SubSeq(fixCalls', 1, n - 1) = fixCalls
                /\ n <= Len(candidates)
                /\ fixCalls'[n].strategy = ExpectedOrder(candidates)[n].strategy
                /\ Len(results) = cycleIdx - 1
                /\ AcceptedCall(fixCalls'[n]) =>
                        results' = Append(results, fixCalls'[n].result[1])]_vars

\* Candidates registered with scores 50, 80, 80 were tried second, third,
\* first, and the last call's result was accepted.
C10_Witness ==
    /\ Len(candidates) = 3
    /\ candidates[1].score = 50 /\ candidates[2].score = 80 /\ candidates[3].score = 80
    /\ Len(fixCalls) = 3
    /\ fixCalls[1].strategy = candidates[2].strategy
    /\ fixCalls[2].strategy = candidates[3].strategy
    /\ fixCalls[3].strategy = candidates[1].strategy
    /\ AcceptedCall(fixCalls[3])
    /\ Len(results) = cycleIdx
    /\ results[cycleIdx] = fixCalls[3].result[1]

\* The step is a strategy.fix call for the current cycle; NewCall is that call.
FixCallStep ==
    /\ cycleIdx' = cycleIdx
    /\ Len(fixCalls') = Len(fixCalls) + 1
    /\ SubSeq(fixCalls', 1, Len(fixCalls)) = fixCalls

NewCall == fixCalls'[Len(fixCalls')]

\* The step returns the new call's result as the FixResult of the cycle.
NewCallReturned ==
    /\ ~NewCall.threw
    /\ results' = Append(results, NewCall.result[1])

\* A FixResult that carries at least one manual step.
HasManualSteps(result) ==
    result.manualSteps # Undefined /\ result.manualSteps[1] # <<>>

\* C11: a strategy's result is returned as the cycle's FixResult only if it
\* has success = true or a non-empty manualSteps list; a result with
\* success = false and manualSteps absent or empty is not returned, and the
\* next candidate, if any, is tried.
C11_AcceptedOnlyWithFixOrSteps ==
    [][FixCallStep =>
            /\ NewCallReturned => AcceptedCall(NewCall)
            /\ (~NewCall.threw /\ ~AcceptedCall(NewCall)) =>
                    /\ ~NewCallReturned
                    /\ tryIdx < Len(applicable) => (fpc' = "try" /\ tryIdx' = tryIdx + 1)]_vars

\* C12: when a candidate's fix call throws, the next candidate in order is
\* tried for the same cycle, or, behind the last candidate, a FixResult for
\* that cycle is returned; execute does not reject.
C12_ThrowingFixContinues ==
    [][(FixCallStep /\ NewCall.threw) =>
            /\ fpc' # "rejected"
            /\ IF tryIdx < Len(applicable)
               THEN /\ fpc' = "try"
                    /\ tryIdx' = tryIdx + 1
                    /\ applicable' = applicable
                    /\ results' = results
               ELSE /\ fpc' \in {"next", "done"}
                    /\ Len(results') = cycleIdx
                    /\ results'[cycleIdx].cycle = cycles[cycleIdx]]_vars

\* The first candidate threw, the second was tried next and threw as well,
\* and the cycle still got its FixResult.
C12_Witness ==
    /\ Len(applicable) = 2
    /\ Len(fixCalls) = 2
    /\ fixCalls[1].threw /\ fixCalls[1].strategy = applicable[1].strategy
    /\ fixCalls[2].threw /\ fixCalls[2].strategy = applicable[2].strategy
    /\ Len(results) = cycleIdx
    /\ results[cycleIdx].cycle = cycles[cycleIdx]

C14_OneResultPerCycle ==
    /\ fpc # "rejected"
    /\ fpc = "done" =>
            /\ Len(results) = Len(cycles)
            /\ \A i \in 1..Len(cycles) : results[i].cycle = cycles[i]

(***************************************************************************)
(* Claims about fix runs with the built-in strategies                      *)
(***************************************************************************)

\* The step returns the FixResult of a cycle; NewResult is that result and
\* NewFsCalls are the IFileSystem calls made in the step.
ResultStep == Len(results') = Len(results) + 1

NewResult == results'[Len(results')]

NewFsCalls == SubSeq(fsLog', Len(fsLog) + 1, Len(fsLog'))

\* C15: with the default strategies, whenever DynamicImportStrategy.canFix is
\* true for a cycle and no file operation fails, the FixResult returned for
\* the cycle has success = true.
C15_AutoFixWhenPossible ==
    [][ResultStep =>
            ((/\ DynamicImportStrategy_canFix(cycles[Len(results')])
              /\ \A j \in 1..Len(NewFsCalls) : NewFsCalls[j].ok) =>
                    NewResult.success)]_vars

\* C16: with dryRun = true the run makes no writeFile and no backup call, and
\* every FixResult has empty modifiedFiles and createdFiles.
C16_DryRunWritesNothing ==
    options.dryRun =>
        /\ \A j \in 1..Len(fsLog) : fsLog[j].op \notin {"writeFile", "backup"}
        /\ \A i \in 1..Len(results) :
                /\ results[i].modifiedFiles = <<>>
                /\ results[i].createdFiles = <<>>

\* A finished dry run over two cycles, the first of them reported as fixed by
\* the dynamic-import strategy.
C16_Witness ==
    /\ options.dryRun
    /\ fpc = "done"
    /\ Len(results) >= 2
    /\ results[1].success
    /\ results[1].strategy = "dynamic-import"
    /\ results[1].modifiedFiles = <<>>
    /\ fsLog = <<>>

\* The files a FixResult names: modified, created, or the file of a manual step.
NamedFiles(result) ==
    Range(result.modifiedFiles) \cup Range(result.createdFiles)
        \cup (IF result.manualSteps = Undefined
              THEN {}
              ELSE {result.manualSteps[1][k].file : k \in 1..Len(result.manualSteps[1])})

\* C17: with dryRun = true, the FixResult of a cycle that a real run would fix
\* by rewriting the file of the selected edge names that file.
C17_DryRunNamesTheFile ==
    options.dryRun =>
        \A i \in 1..Len(results) :
            (results[i].success /\ selectEdgeToConvert(cycles[i]) # Undefined) =>
                selectEdgeToConvert(cycles[i])[1].from \in NamedFiles(results[i])

C19_NoBackupWhenDisabled ==
    ~options.backup => \A j \in 1..Len(fsLog) : fsLog[j].op # "backup"

\* C20: when no strategy is a candidate for a cycle, the FixResult returned
\* for it has strategy = null, whatever the length of the cycle.
C20_NoCandidateGivesNullStrategy ==
    [][(ResultStep /\ cycleIdx' = cycleIdx + 1 /\ candidates' = <<>>) =>
            NewResult.strategy = NullPath]_vars

IsWrite(j) == NewFsCalls[j].op = "writeFile"

\* The new IFileSystem call at j of the step is a backup or a read that failed.
IsFailedBeforeWrite(j) ==
    NewFsCalls[j].op \in {"backup", "readFile"} /\ ~NewFsCalls[j].ok

\* C30: in a fix call with dryRun = false, DynamicImportStrategy calls
\* writeFile on a module only after a backup of that module went through in
\* the same call; when the backup or the read fails, writeFile is not called
\* and the call's result has success = false and no modified files.
C30_BackupBeforeWrite ==
    [][(fsLog' # fsLog) =>
            /\ FixCallStep
            /\ ~options.dryRun
            /\ \A j \in 1..Len(NewFsCalls) :
                    IsWrite(j) =>
                        \E i \in 1..(j - 1) :
                            NewFsCalls[i] = FsCall("backup", NewFsCalls[j].file, TRUE)
            /\ (\E j \in 1..Len(NewFsCalls) : IsFailedBeforeWrite(j)) =>
                    /\ \A j \in 1..Len(NewFsCalls) : ~IsWrite(j)
                    /\ ~NewCall.result[1].success
                    /\ NewCall.result[1].modifiedFiles = <<>>]_vars

\* One fix call of the run wrote its module after the backup, and in another
\* the backup or the read failed.
C30_Witness ==
    /\ \E j \in 1..Len(fsLog) : fsLog[j].op = "writeFile" /\ fsLog[j].ok
    /\ \E j \in 1..Len(fsLog) : fsLog[j].op \in {"backup", "readFile"} /\ ~fsLog[j].ok

(***************************************************************************)
(* Notions the claims on a detection run are stated in                     *)
(***************************************************************************)

Discovered == Range(files)

\* The content of the file was read in this run.
WasRead(file) == tasks[file] \in {"hit", "parsed", "parsing", "lookupFailed", "parseFailed"}

\* The callback of the file ended in its catch.
Failed(file) == tasks[file] \in {"readFailed", "lookupFailed", "parseFailed"}

\* The file was served from the cache, or parsed.
Analysed(file) == tasks[file] \in {"hit", "parsed"}

AllSettled == \A file \in Discovered : Settled(tasks[file])

\* The loaded cache is a CacheState and holds an entry for the file whose
\* hash is the hash of the content the file has now.
FreshEntry(file) ==
    /\ MapHas(cacheState.modules, file)
    /\ cacheState.modules[file].hash = hashContent(disk[file])

WarningsFor(file) == {i \in 1..Len(warnings) : warnings[i].file = file}

BadCacheFile ==
    \/ cacheFile.kind \in {"missing", "unreadable", "unparsable", "null"}
    \/ cacheFile.kind = "object" /\ ~cacheFile.hasModules

\* C22: with the cache enabled and a missing, unreadable or corrupt cache
\* file, the run behaves as a run without cache: no file is served from the
\* cache, every file that was read is handed to the parser, and a warning is
\* recorded only for a file whose read or parse failed.
C22_BadCacheIsColdRun ==
    (rpc = "parsing" /\ config.enableCache /\ BadCacheFile) =>
        /\ cacheHits = 0
        /\ \A file \in Discovered :
                /\ WasRead(file) => file \in Range(parserCalls)
                /\ tasks[file] \in {"reading", "parsing", "parsed", "readFailed", "parseFailed"}
                /\ WarningsFor(file) # {} => tasks[file] \in {"readFailed", "parseFailed"}

C27_NoDanglingEdges ==
    rpc = "done" => ~HasDangling(modules)

\* C28: after a run with the cache enabled whose cache.save went through,
\* the cache file holds exactly one entry per module of the graph of that
\* run, with the hash of the content the file had in that run and with that
\* module, and no other entry.
C28_CacheReplaced ==
    (rpc = "done" /\ cacheSaved = "ok") =>
        /\ cacheFile.kind = "object"
        /\ cacheFile.hasModules
        /\ DOMAIN cacheFile.modules = Range(modules.keys)
        /\ \A file \in Range(modules.keys) :
                /\ cacheFile.modules[file].hash = hashContent(disk[file])
                /\ cacheFile.modules[file].module.imports = modules.imports[file]

\* The cache loaded for the run held an entry for a file that is no module
\* of this run's graph, and the run saved its cache.
C28_Witness ==
    /\ rpc = "done"
    /\ cacheSaved = "ok"
    /\ modules.keys # <<>>
    /\ \E file \in DOMAIN cacheState.modules : ~ModulesHas(modules, file)

\* C29: when every callback of parseModules has ended, whatever the order in
\* which their reads and parses settled, the module map has one entry for
\* each file that was served from the cache or parsed and no other, the hash
\* map has the same keys, cacheHits is the number of files served from the
\* cache, and there is one warning for each file that failed.
C29_NoLostUpdate ==
    (rpc # "idle" /\ AllSettled) =>
        /\ Range(modules.keys) = {file \in Discovered : Analysed(file)}
        /\ Len(modules.keys) = Cardinality(Range(modules.keys))
        /\ DOMAIN modules.imports = Range(modules.keys)
        /\ DOMAIN hashes = Range(modules.keys)
        /\ cacheHits = Cardinality({file \in Discovered : tasks[file] = "hit"})
        /\ Len(warnings) = Cardinality({file \in Discovered : Failed(file)})
        /\ \A file \in Discovered : Failed(file) => WarningsFor(file) # {}

\* The callbacks of two files ended in the other order than they started,
\* one served from the cache and one parsed.
C29_Witness ==
    /\ rpc = "parsing"
    /\ AllSettled
    /\ Len(files) = 2
    /\ modules.keys = <<files[2], files[1]>>
    /\ tasks[files[1]] = "parsed"
    /\ tasks[files[2]] = "hit"

(***************************************************************************)
(* Notions the claims on the policy enforcer are stated in                 *)
(***************************************************************************)

\* The edges of the evaluated cycles: cycle index and edge index.
EdgeSlots ==
    UNION {{<<c, k>> : k \in 1..Len(evaluated[c].edges)} : c \in 1..Len(evaluated)}

FromOf(slot) == normalize(RootDir, evaluated[slot[1]].edges[slot[2]].from)

ToOf(slot) == normalize(RootDir, evaluated[slot[1]].edges[slot[2]].to)

\* Both matchers of rule r test true on the edge of the slot.
RuleFires(r, slot) ==
    /\ RegExp_test(rules[r].fromMatcher, FromOf(slot))
    /\ RegExp_test(rules[r].toMatcher, ToOf(slot))

\* The violations reported for rule r on the edge of the slot.
ViolationsOf(r, slot) ==
    {v \in 1..Len(violations) :
        violations[v] = PolicyViolation(rules[r], FromOf(slot), ToOf(slot), evaluated[slot[1]])}

\* The number of pairs of an edge and a rule for which the rule fires.
RECURSIVE CountFiring(_)
CountFiring(pairs) ==
    IF pairs = {}
    THEN 0
    ELSE LET pair == CHOOSE x \in pairs : TRUE
         IN  (IF RuleFires(pair[1], pair[2]) THEN 1 ELSE 0) + CountFiring(pairs \ {pair})

RECURSIVE globMatch(_, _, _, _)

\* The pattern from i on matches the text from j to its end, ** standing
\* for any characters and * for any characters but the separator.
globMatch(pattern, i, text, j) ==
    IF i > Len(pattern)
    THEN j > Len(text)
    ELSE IF pattern[i] = "*" /\ i < Len(pattern) /\ pattern[i + 1] = "*"
    THEN \E k \in j..(Len(text) + 1) : globMatch(pattern, i + 2, text, k)
    ELSE IF pattern[i] = "*"
    THEN \E k \in j..(Len(text) + 1) :
            /\ \A x \in j..(k - 1) : text[x] # "/"
            /\ globMatch(pattern, i + 1, text, k)
    ELSE /\ j <= Len(text)
         /\ text[j] = pattern[i]
         /\ globMatch(pattern, i + 1, text, j + 1)

\* C25: the matcher compiled from a pattern accepts a path exactly when the
\* pattern matches it with ** matching any sequence of characters, path
\* separators included, and * matching only within one path segment.
C25_GlobSemantics ==
    \A r \in 1..Len(rules) : \A slot \in EdgeSlots :
        /\ RegExp_test(rules[r].fromMatcher, FromOf(slot))
                <=> globMatch(rules[r].from, 1, FromOf(slot), 1)
        /\ RegExp_test(rules[r].toMatcher, ToOf(slot))
                <=> globMatch(rules[r].to, 1, ToOf(slot), 1)

====
